---------------------------- MODULE Spec2Model ----------------------------
(***************************************************************************)
(* A model of motiondetector.cpp: the AsynchronousQueue element (a queue   *)
(* of frames drained by its own thread), the DetectorElement's pattern     *)
(* search, the VideoSourceElement's start and stop, and the propagation of *)
(* a frame through linked elements.                                        *)
(*                                                                         *)
(* Spec        the AsynchronousQueue with one caller of process(), its     *)
(*             internal thread and the thread that runs the destructor.    *)
(* FairSpec    Spec with weak fairness on every step of a thread that has  *)
(*             already been started (the OS schedules every runnable       *)
(*             thread); no fairness on a new call of process(), on         *)
(*             spurious wake-ups, or on starting the destructor.           *)
(* MatcherSpec the DetectorElement applied to a generated frame.           *)
(* SourceSpec  the VideoSourceElement with one caller of start(), one      *)
(*             caller of stop() and its generator thread.                  *)
(* SourceFairSpec  SourceSpec with weak fairness on every step but the     *)
(*             calls of start() and stop() themselves.                     *)
(* PipelineSpec  elements of any class linked by main, and one frame       *)
(*             propagated through them by the threads of the first         *)
(*             element and of the AsynchronousQueues.                      *)
(* MainSpec    main's pipeline, source -> [queue -> detector, display],    *)
(*             with the source's thread and the queue's thread at work on  *)
(*             generated frames.                                           *)
(***************************************************************************)
EXTENDS Integers, Sequences, FiniteSets, TLC

\* ------------------------------------------------------------------ bounds
\* Largest queueMaxSize handed to the AsynchronousQueue constructor.
MaxCapacity == 2
\* Number of calls of AsynchronousQueue::process in one run.
MaxFrames == 4
\* Largest number of cells (rows times columns) of a generated frame.
MaxFrameCells == 9
\* Largest number of cells of a pattern handed to the DetectorElement.
MaxPatternCells == 4
\* Number of calls of DetectorElement::process on one frame.
MaxRuns == 2
\* Largest frameRate handed to the VideoSourceElement constructor.
MaxFrameRate == 2
\* The generated frames are counted up to this number.
MaxGenerated == 3
\* Number of elements main creates.
MaxElements == 4
\* Number of calls of link main makes.
MaxLinks == 3

VARIABLES
    \* AsynchronousQueue members (lines 466-473)
    m_runningState,       \* bool m_runningState
    m_startedState,       \* bool m_startedState
    m_videoFramesQueue,   \* queue<shared_ptr<VideoFrame>>, a sequence of frame ids
    m_queueLock,          \* mutex m_queueLock: "free", "producer" or "worker"
    m_queueMaxSize,       \* uint8_t m_queueMaxSize
    \* the thread that calls process() (the upstream element's thread)
    p_pc,                 \* where that thread is inside process()
    p_frame,              \* the videoFrame argument of the call in progress (0: none)
    \* m_internalThread, running waitForNewVideoFrame
    w_pc,                 \* where the thread is ("none": no thread was created)
    newVideoFrame,        \* the local newVideoFrame of the drain loop (0: none)
    \* the thread that runs ~AsynchronousQueue
    d_pc,
    \* history, not part of the program
    enqueued,             \* the frames passed to process(), in call order
    forwarded,            \* the frames handed to the next elements, in order
    burst,                \* number of frames pushNewVideoFrame had queued when the
                          \* thread took its first frame from the queue (-1: none
                          \* taken yet)
    threadsCreated        \* number of threads start() has created
VARIABLES
    \* DetectorElement and the frame it is handed
    m_patternToDetect,    \* vector<vector<uint8_t>> m_patternToDetect
    m_pixels,             \* videoFrame->m_pixels, the frame's rows of cells
    \* history, not part of the program
    runs,                 \* calls of DetectorElement::process on the frame so far
    before,               \* m_pixels as it was when the last call began
    found,                \* the anchors <<j, i>> the last call reported, in order
    undefined             \* the last call read outside a vector

VARIABLES
    \* VideoSourceElement members (lines 185-190); its m_runningState and
    \* m_internalThread carry the prefix source_ to tell them from the
    \* AsynchronousQueue's
    m_frameRate,            \* uint8_t m_frameRate
    source_runningState,    \* bool m_runningState
    source_internalThread,  \* thread m_internalThread: "empty" or "joinable"
    start_pc,               \* where the thread that calls start() is
    stop_pc,                \* where the thread that calls stop() is
    g_pc,                   \* where the thread running RandomVideoFramesGenerator is
    aborted,                \* the process was terminated (signal or std::terminate)
    \* history, not part of the program
    joiners,                \* the calls that have called m_internalThread.join()
    generated,              \* frames generated so far (counted up to MaxGenerated)
    delay                   \* the last value of 1000 / m_frameRate (-1: none yet)

VARIABLES
    \* the elements and their links
    kind,                   \* the class of each element
    m_nextElements,         \* BaseElement::m_nextElements of each element
    linkResult,             \* the element the last call of link returned (0: none)
    phase,                  \* "assembly" while main links, then "run"
    stacks,                 \* per thread, the calls of processAndPushDownstream in
                            \* progress: the element, the index of the next element
                            \* the for_each is at, and the call it makes next
    pending,                \* per AsynchronousQueue, frames handed to its thread
    \* history, not part of the program
    linkLog,                \* the calls of link, in order
    callLog                 \* the calls of process and processAndPushDownstream

VARIABLES
    \* main's pipeline at work: source -> [queue -> detector, display]
    pixelsOf,               \* the m_pixels of each generated frame, by frame id
    display_pc,             \* "idle", or "reading" inside printVideoFrame
    displayed,              \* calls of DisplayElement::process that have returned
    detector_pc,            \* where the queue's thread is in DetectorElement::process
    detected                \* calls of DetectorElement::process that have returned

relayVars == <<m_runningState, m_startedState, m_videoFramesQueue, m_queueLock,
               m_queueMaxSize, p_pc, p_frame, w_pc, newVideoFrame, d_pc,
               enqueued, forwarded, burst, threadsCreated>>

detectorVars == <<m_patternToDetect, m_pixels, runs, before, found, undefined>>

sourceVars == <<m_frameRate, source_runningState, source_internalThread, start_pc,
                stop_pc, g_pc, aborted, joiners, generated, delay>>

pipelineVars == <<kind, m_nextElements, linkResult, phase, stacks, pending,
                  linkLog, callLog>>

mainVars == <<pixelsOf, display_pc, displayed, detector_pc, detected>>

vars == <<relayVars, detectorVars, sourceVars, pipelineVars, mainVars>>

\* -------------------------------------------------------- AsynchronousQueue
\* m_videoFramesQueue is read and written with m_queueLock held, except by the
\* destructor's final checkQueueSizeConstraint(0), which runs after the join.
\* m_runningState is a plain bool that the destructor writes (line 434) and
\* the queue's thread reads (lines 549 and 560) with no lock in common: each
\* read is a step of its own, so it may fall before or after the write.

\* AsynchronousQueue(queueMaxSize), lines 417-423.
AsynchronousQueue(queueMaxSize) ==
    /\ m_runningState = FALSE
    /\ m_startedState = FALSE
    /\ m_videoFramesQueue = <<>>
    /\ m_queueLock = "free"
    /\ m_queueMaxSize = queueMaxSize
    /\ p_pc = "idle"
    /\ p_frame = 0
    /\ w_pc = "none"
    /\ newVideoFrame = 0
    /\ d_pc = "alive"
    /\ enqueued = <<>>
    /\ forwarded = <<>>
    /\ burst = -1
    /\ threadsCreated = 0

\* checkQueueSizeConstraint(maxSize), lines 494-502: pops the front while the
\* queue holds more than maxSize frames.
RECURSIVE checkQueueSizeConstraint(_, _)
checkQueueSizeConstraint(queue, maxSize) ==
    IF Len(queue) > maxSize
    THEN checkQueueSizeConstraint(Tail(queue), maxSize)
    ELSE queue

\* condition_variable::notify_one / notify_all with at most one waiter: a
\* thread suspended in wait() becomes runnable and has to take the mutex
\* again; a notification with no waiter is lost.
Notified(pc) == IF pc = "suspended" THEN "wake" ELSE pc

\* History: the number of frames pushNewVideoFrame has appended to the queue
\* (every frame passed to process() but the one of a call still in progress).
Pushed == Len(enqueued) - (IF p_pc \in {"push", "lock", "locked"} THEN 1 ELSE 0)

\* start() without the test of line 481: every call creates a thread.
start_always(startedState, runningState) ==
    [startedState |-> TRUE, runningState |-> TRUE, created |-> TRUE]

\* start(), lines 479-487, on the values of m_startedState and m_runningState:
\* their values on return, and whether a thread was created (line 485).
start(startedState, runningState) ==
    IF ~startedState
    THEN [startedState |-> TRUE, runningState |-> TRUE, created |-> TRUE]
    ELSE [startedState |-> startedState, runningState |-> runningState,
          created |-> FALSE]

\* process(videoFrame), lines 447-450, up to the return of start() (lines
\* 479-487).  The frame is a new one: Source makes a frame per call.
process_start ==
    /\ p_pc = "idle"
    /\ d_pc = "alive"
    /\ Len(enqueued) < MaxFrames
    /\ p_frame' = Len(enqueued) + 1
    /\ enqueued' = Append(enqueued, Len(enqueued) + 1)
    /\ LET r == start(m_startedState, m_runningState) IN
           /\ m_startedState' = r.startedState
           /\ m_runningState' = r.runningState
           /\ w_pc' = IF r.created THEN "lock" ELSE w_pc
           /\ threadsCreated' = threadsCreated + (IF r.created THEN 1 ELSE 0)
    /\ p_pc' = "push"
    /\ UNCHANGED <<m_videoFramesQueue, m_queueLock, m_queueMaxSize, newVideoFrame,
                   d_pc, forwarded, burst, detectorVars, sourceVars, pipelineVars, mainVars>>

\* pushNewVideoFrame_check without the test of line 513: a queue of size 0 is
\* pushed to like any other.
pushNewVideoFrame_check_unguarded ==
    /\ p_pc = "push"
    /\ p_pc' = "lock"
    /\ UNCHANGED <<m_runningState, m_startedState, m_videoFramesQueue, m_queueLock,
                   m_queueMaxSize, p_frame, w_pc, newVideoFrame, d_pc, enqueued,
                   forwarded, burst, threadsCreated, detectorVars, sourceVars, pipelineVars, mainVars>>

\* pushNewVideoFrame, line 513: nothing is done when m_queueMaxSize is 0.
pushNewVideoFrame_check ==
    /\ p_pc = "push"
    /\ IF m_queueMaxSize > 0
       THEN p_pc' = "lock" /\ p_frame' = p_frame
       ELSE p_pc' = "idle" /\ p_frame' = 0
    /\ UNCHANGED <<m_runningState, m_startedState, m_videoFramesQueue, m_queueLock,
                   m_queueMaxSize, w_pc, newVideoFrame, d_pc, enqueued, forwarded,
                   burst, threadsCreated, detectorVars, sourceVars, pipelineVars, mainVars>>

\* pushNewVideoFrame, line 515: unique_lock<mutex> lock(m_queueLock).
pushNewVideoFrame_lock ==
    /\ p_pc = "lock"
    /\ m_queueLock = "free"
    /\ m_queueLock' = "producer"
    /\ p_pc' = "locked"
    /\ UNCHANGED <<m_runningState, m_startedState, m_videoFramesQueue, m_queueMaxSize,
                   p_frame, w_pc, newVideoFrame, d_pc, enqueued, forwarded, burst, threadsCreated, detectorVars, sourceVars, pipelineVars, mainVars>>

\* pushNewVideoFrame, lines 516-518: trim, push, unlock.
pushNewVideoFrame_push ==
    /\ p_pc = "locked"
    /\ m_videoFramesQueue' =
           Append(checkQueueSizeConstraint(m_videoFramesQueue, m_queueMaxSize), p_frame)
    /\ m_queueLock' = "free"
    /\ p_pc' = "notify"
    /\ UNCHANGED <<m_runningState, m_startedState, m_queueMaxSize, p_frame, w_pc,
                   newVideoFrame, d_pc, enqueued, forwarded, burst, threadsCreated, detectorVars, sourceVars, pipelineVars, mainVars>>

\* pushNewVideoFrame_notify without the notify_one() of line 519.
pushNewVideoFrame_notify_none ==
    /\ p_pc = "notify"
    /\ p_pc' = "idle"
    /\ p_frame' = 0
    /\ UNCHANGED <<m_runningState, m_startedState, m_videoFramesQueue, m_queueLock,
                   m_queueMaxSize, w_pc, newVideoFrame, d_pc, enqueued, forwarded,
                   burst, threadsCreated, detectorVars, sourceVars, pipelineVars, mainVars>>

\* pushNewVideoFrame, line 519: m_queueCv.notify_one(), then process() returns.
pushNewVideoFrame_notify ==
    /\ p_pc = "notify"
    /\ w_pc' = Notified(w_pc)
    /\ p_pc' = "idle"
    /\ p_frame' = 0
    /\ UNCHANGED <<m_runningState, m_startedState, m_videoFramesQueue, m_queueLock,
                   m_queueMaxSize, newVideoFrame, d_pc, enqueued, forwarded, burst, threadsCreated, detectorVars, sourceVars, pipelineVars, mainVars>>

\* waitForNewVideoFrame, line 530: unique_lock<mutex> lock(m_queueLock).
waitForNewVideoFrame_lock ==
    /\ w_pc = "lock"
    /\ m_queueLock = "free"
    /\ m_queueLock' = "worker"
    /\ w_pc' = "wait"
    /\ UNCHANGED <<m_runningState, m_startedState, m_videoFramesQueue, m_queueMaxSize,
                   p_pc, p_frame, newVideoFrame, d_pc, enqueued, forwarded, burst, threadsCreated, detectorVars, sourceVars, pipelineVars, mainVars>>

\* waitForNewVideoFrame, lines 535-538: m_queueCv.wait(lock, pred) evaluates
\* pred with the mutex held; when the queue is empty it releases the mutex and
\* suspends the thread.  The predicate reads only the queue size.
waitForNewVideoFrame_wait ==
    /\ w_pc = "wait"
    /\ IF Len(m_videoFramesQueue) # 0
       THEN w_pc' = "drain" /\ m_queueLock' = m_queueLock
       ELSE w_pc' = "suspended" /\ m_queueLock' = "free"
    /\ UNCHANGED <<m_runningState, m_startedState, m_videoFramesQueue, m_queueMaxSize,
                   p_pc, p_frame, newVideoFrame, d_pc, enqueued, forwarded, burst, threadsCreated, detectorVars, sourceVars, pipelineVars, mainVars>>

\* condition_variable::wait may return spuriously (line 535).
waitForNewVideoFrame_spurious ==
    /\ w_pc = "suspended"
    /\ w_pc' = "wake"
    /\ UNCHANGED <<m_runningState, m_startedState, m_videoFramesQueue, m_queueLock,
                   m_queueMaxSize, p_pc, p_frame, newVideoFrame, d_pc, enqueued,
                   forwarded, burst, threadsCreated, detectorVars, sourceVars, pipelineVars, mainVars>>

\* Line 535: a woken wait() takes the mutex again and evaluates pred again.
waitForNewVideoFrame_wake ==
    /\ w_pc = "wake"
    /\ m_queueLock = "free"
    /\ m_queueLock' = "worker"
    /\ w_pc' = "wait"
    /\ UNCHANGED <<m_runningState, m_startedState, m_videoFramesQueue, m_queueMaxSize,
                   p_pc, p_frame, newVideoFrame, d_pc, enqueued, forwarded, burst, threadsCreated, detectorVars, sourceVars, pipelineVars, mainVars>>

\* waitForNewVideoFrame_pop without the lock.unlock() of line 547: the mutex
\* stays held while the next elements run.
waitForNewVideoFrame_pop_locked ==
    /\ w_pc = "drain"
    /\ IF Len(m_videoFramesQueue) # 0
       THEN /\ newVideoFrame' = Head(m_videoFramesQueue)
            /\ m_videoFramesQueue' = Tail(m_videoFramesQueue)
            /\ burst' = IF burst = -1 THEN Pushed ELSE burst
            /\ w_pc' = "check"
       ELSE /\ w_pc' = "loop"
            /\ UNCHANGED <<newVideoFrame, m_videoFramesQueue, burst>>
    /\ UNCHANGED <<m_runningState, m_startedState, m_queueLock, m_queueMaxSize, p_pc,
                   p_frame, d_pc, enqueued, forwarded, threadsCreated, detectorVars, sourceVars, pipelineVars, mainVars>>

\* waitForNewVideoFrame_pop taking the newest frame (the back of the queue)
\* instead of the front.
waitForNewVideoFrame_pop_back ==
    /\ w_pc = "drain"
    /\ IF Len(m_videoFramesQueue) # 0
       THEN /\ newVideoFrame' = m_videoFramesQueue[Len(m_videoFramesQueue)]
            /\ m_videoFramesQueue' =
                   SubSeq(m_videoFramesQueue, 1, Len(m_videoFramesQueue) - 1)
            /\ m_queueLock' = "free"
            /\ burst' = IF burst = -1 THEN Pushed ELSE burst
            /\ w_pc' = "check"
       ELSE /\ w_pc' = "loop"
            /\ UNCHANGED <<newVideoFrame, m_videoFramesQueue, m_queueLock, burst>>
    /\ UNCHANGED <<m_runningState, m_startedState, m_queueMaxSize, p_pc, p_frame,
                   d_pc, enqueued, forwarded, threadsCreated, detectorVars, sourceVars, pipelineVars, mainVars>>

\* waitForNewVideoFrame, lines 541-547: with the mutex held, test the queue;
\* take its front, pop it and unlock, or leave the while loop (mutex held).
waitForNewVideoFrame_pop ==
    /\ w_pc = "drain"
    /\ IF Len(m_videoFramesQueue) # 0
       THEN /\ newVideoFrame' = Head(m_videoFramesQueue)
            /\ m_videoFramesQueue' = Tail(m_videoFramesQueue)
            /\ m_queueLock' = "free"
            /\ burst' = IF burst = -1 THEN Pushed ELSE burst
            /\ w_pc' = "check"
       ELSE /\ w_pc' = "loop"
            /\ UNCHANGED <<newVideoFrame, m_videoFramesQueue, m_queueLock, burst>>
    /\ UNCHANGED <<m_runningState, m_startedState, m_queueMaxSize, p_pc, p_frame,
                   d_pc, enqueued, forwarded, threadsCreated, detectorVars, sourceVars, pipelineVars, mainVars>>

\* waitForNewVideoFrame_check without the test of lines 549-550: the popped
\* frame is forwarded whatever m_runningState is.
waitForNewVideoFrame_check_always ==
    /\ w_pc = "check"
    /\ w_pc' = "forward"
    /\ forwarded' = Append(forwarded, newVideoFrame)
    /\ UNCHANGED <<m_runningState, m_startedState, m_videoFramesQueue, m_queueLock,
                   m_queueMaxSize, p_pc, p_frame, newVideoFrame, d_pc, enqueued,
                   burst, threadsCreated, detectorVars, sourceVars, pipelineVars, mainVars>>

\* waitForNewVideoFrame, lines 549-553: break when not running (the popped
\* frame is dropped), else enter the for_each over m_nextElements.
waitForNewVideoFrame_check ==
    /\ w_pc = "check"
    /\ IF ~m_runningState
       THEN /\ w_pc' = "loop"
            /\ newVideoFrame' = 0
            /\ forwarded' = forwarded
       ELSE /\ w_pc' = "forward"
            /\ newVideoFrame' = newVideoFrame
            /\ forwarded' = Append(forwarded, newVideoFrame)
    /\ UNCHANGED <<m_runningState, m_startedState, m_videoFramesQueue, m_queueLock,
                   m_queueMaxSize, p_pc, p_frame, d_pc, enqueued, burst, threadsCreated, detectorVars, sourceVars, pipelineVars, mainVars>>

\* waitForNewVideoFrame, lines 553-556: the next elements' process and
\* processAndPushDownstream return.
waitForNewVideoFrame_forward ==
    /\ w_pc = "forward"
    /\ w_pc' = "relock"
    /\ UNCHANGED <<m_runningState, m_startedState, m_videoFramesQueue, m_queueLock,
                   m_queueMaxSize, p_pc, p_frame, newVideoFrame, d_pc, enqueued,
                   forwarded, burst, threadsCreated, detectorVars, sourceVars, pipelineVars, mainVars>>

\* waitForNewVideoFrame, line 558: lock.lock(); the iteration ends and
\* newVideoFrame goes out of scope.
waitForNewVideoFrame_relock ==
    /\ w_pc = "relock"
    /\ m_queueLock = "free"
    /\ m_queueLock' = "worker"
    /\ newVideoFrame' = 0
    /\ w_pc' = "drain"
    /\ UNCHANGED <<m_runningState, m_startedState, m_videoFramesQueue, m_queueMaxSize,
                   p_pc, p_frame, d_pc, enqueued, forwarded, burst, threadsCreated, detectorVars, sourceVars, pipelineVars, mainVars>>

\* waitForNewVideoFrame, lines 560-561: while (m_runningState); on exit the
\* unique_lock's destructor unlocks the mutex if it owns it.
waitForNewVideoFrame_loop ==
    /\ w_pc = "loop"
    /\ IF m_runningState
       THEN w_pc' = "wait" /\ m_queueLock' = m_queueLock
       ELSE /\ w_pc' = "done"
            /\ m_queueLock' = IF m_queueLock = "worker" THEN "free" ELSE m_queueLock
    /\ UNCHANGED <<m_runningState, m_startedState, m_videoFramesQueue, m_queueMaxSize,
                   p_pc, p_frame, newVideoFrame, d_pc, enqueued, forwarded, burst, threadsCreated, detectorVars, sourceVars, pipelineVars, mainVars>>

\* ~AsynchronousQueue, line 434: m_runningState = false.  The element is
\* destroyed by the thread that built the pipeline once no call of process()
\* is in progress (main, lines 625-641).
destructor_stop ==
    /\ d_pc = "alive"
    /\ p_pc = "idle"
    /\ m_runningState' = FALSE
    /\ d_pc' = "notify"
    /\ UNCHANGED <<m_startedState, m_videoFramesQueue, m_queueLock, m_queueMaxSize,
                   p_pc, p_frame, w_pc, newVideoFrame, enqueued, forwarded, burst, threadsCreated, detectorVars, sourceVars, pipelineVars, mainVars>>

\* ~AsynchronousQueue, line 435: m_queueCv.notify_all().
destructor_notify ==
    /\ d_pc = "notify"
    /\ w_pc' = Notified(w_pc)
    /\ d_pc' = "join"
    /\ UNCHANGED <<m_runningState, m_startedState, m_videoFramesQueue, m_queueLock,
                   m_queueMaxSize, p_pc, p_frame, newVideoFrame, enqueued, forwarded,
                   burst, threadsCreated, detectorVars, sourceVars, pipelineVars, mainVars>>

\* ~AsynchronousQueue, lines 436-437: join returns when the thread function
\* has returned; a thread that was never created is not joinable.
destructor_join ==
    /\ d_pc = "join"
    /\ w_pc \in {"none", "done"}
    /\ d_pc' = "flush"
    /\ UNCHANGED <<m_runningState, m_startedState, m_videoFramesQueue, m_queueLock,
                   m_queueMaxSize, p_pc, p_frame, w_pc, newVideoFrame, enqueued,
                   forwarded, burst, threadsCreated, detectorVars, sourceVars, pipelineVars, mainVars>>

\* destructor_flush trimming to m_queueMaxSize where line 438 trims to 0.
destructor_flush_maxSize ==
    /\ d_pc = "flush"
    /\ m_videoFramesQueue' = checkQueueSizeConstraint(m_videoFramesQueue, m_queueMaxSize)
    /\ d_pc' = "done"
    /\ UNCHANGED <<m_runningState, m_startedState, m_queueLock, m_queueMaxSize,
                   p_pc, p_frame, w_pc, newVideoFrame, enqueued, forwarded, burst,
                   threadsCreated, detectorVars, sourceVars, pipelineVars, mainVars>>

\* ~AsynchronousQueue, line 438: checkQueueSizeConstraint(0).
destructor_flush ==
    /\ d_pc = "flush"
    /\ m_videoFramesQueue' = checkQueueSizeConstraint(m_videoFramesQueue, 0)
    /\ d_pc' = "done"
    /\ UNCHANGED <<m_runningState, m_startedState, m_queueLock, m_queueMaxSize,
                   p_pc, p_frame, w_pc, newVideoFrame, enqueued, forwarded, burst, threadsCreated, detectorVars, sourceVars, pipelineVars, mainVars>>

\* ---------------------------------------------------------- DetectorElement

\* main, lines 569-570: the frame size the program runs with.
width == 20
height == 25
\* main, line 606: the queue size the program runs with.
asyncQueueMaxSize == 1
\* main, lines 599-605: the pattern the program runs with.
pattern == << <<0, 1, 0>>, <<1, 1, 1>>, <<0, 1, 0>>, <<1, 0, 1>> >>

\* Lines 367 and 374 subtract two vector sizes as size_t, which wraps when the
\* second is the larger.  size_t has 64 bits and TLC's integers have 32, so the
\* difference is taken modulo 2^30 instead of 2^64: in both a wrapped difference
\* is larger than every index of a frame.
SizeModulus == 2 ^ 30
SizeSub(a, b) == (a - b) % SizeModulus

\* The test of lines 361-365 with its second half left out: only the number
\* of rows is compared.
PatternBiggerThanFrame_rowsOnly(pixels, patternToDetect) ==
    Len(pixels) < Len(patternToDetect)

\* The test of lines 361-365: the pattern has more rows than the frame, or
\* more columns than the frame's first row.
PatternBiggerThanFrame(pixels, patternToDetect) ==
    \/ Len(pixels) < Len(patternToDetect)
    \/ Len(pixels[1]) < Len(patternToDetect[1])

\* std::equal(patternRow.begin(), patternRow.end(), raw.begin() + i), lines
\* 376 and 384: the cells of patternRow against the cells of raw from column i.
RowEqual(patternRow, raw, i) ==
    \A c \in 1..Len(patternRow) : patternRow[c] = raw[i + c]

\* Lines 376-388: the pattern's rows k, k+1, ... against the rows j+k, ... of
\* pixels from column i, stopping at the first row that differs.  A row that
\* pixels does not have, or one too short for the comparison, is read outside
\* its vector.
RECURSIVE CompareRows(_, _, _, _, _)
CompareRows(pixels, patternToDetect, j, i, k) ==
    IF k >= Len(patternToDetect) THEN "found"
    ELSE IF \/ j + k >= Len(pixels)
            \/ i + Len(patternToDetect[k + 1]) > Len(pixels[j + k + 1])
         THEN "undefined"
    ELSE IF RowEqual(patternToDetect[k + 1], pixels[j + k + 1], i)
         THEN CompareRows(pixels, patternToDetect, j, i, k + 1)
         ELSE "notfound"

\* markPattern without the test of line 345: every cell of the footprint
\* becomes 2.
markPattern_everyCell(pixels, patternToDetect, xPosition, yPosition) ==
    [k \in 1..Len(pixels) |->
        [h \in 1..Len(pixels[k]) |->
            IF /\ yPosition <= k - 1
               /\ k - 1 < yPosition + Len(patternToDetect)
               /\ xPosition <= h - 1
               /\ h - 1 < xPosition + Len(patternToDetect[1])
            THEN 2
            ELSE pixels[k][h]]]

\* markPattern writing 0 where line 345 writes 2: a found pattern is erased
\* instead of marked.
markPattern_erase(pixels, patternToDetect, xPosition, yPosition) ==
    [k \in 1..Len(pixels) |->
        [h \in 1..Len(pixels[k]) |->
            IF /\ yPosition <= k - 1
               /\ k - 1 < yPosition + Len(patternToDetect)
               /\ xPosition <= h - 1
               /\ h - 1 < xPosition + Len(patternToDetect[1])
            THEN (IF pixels[k][h] > 0 THEN 0 ELSE pixels[k][h])
            ELSE pixels[k][h]]]

\* markPattern(videoFrame, xPosition, yPosition), lines 339-348: every cell of
\* the footprint that is above 0 becomes 2.
markPattern(pixels, patternToDetect, xPosition, yPosition) ==
    [k \in 1..Len(pixels) |->
        [h \in 1..Len(pixels[k]) |->
            IF /\ yPosition <= k - 1
               /\ k - 1 < yPosition + Len(patternToDetect)
               /\ xPosition <= h - 1
               /\ h - 1 < xPosition + Len(patternToDetect[1])
            THEN (IF pixels[k][h] > 0 THEN 2 ELSE pixels[k][h])
            ELSE pixels[k][h]]]

\* ScanColumns with the comparisons reading the frame itself (a reference
\* where line 358 makes a copy), so that they see the cells already marked.
RECURSIVE ScanColumns_live(_, _, _, _, _)
ScanColumns_live(pixels, patternToDetect, j, i, s) ==
    IF s.undefined \/ ~(i < SizeSub(Len(pixels[j + 1]), Len(patternToDetect[1])))
    THEN s
    ELSE LET c == CompareRows(s.m_pixels, patternToDetect, j, i, 0) IN
         ScanColumns_live(pixels, patternToDetect, j, i + 1,
             CASE c = "undefined" -> [s EXCEPT !.undefined = TRUE]
               [] c = "found" ->
                     [s EXCEPT !.m_pixels = markPattern(s.m_pixels, patternToDetect, i, j),
                               !.found = Append(s.found, <<j, i>>)]
               [] OTHER -> s)

\* The loop over i of lines 374-398 from column i on, for row j.  pixels is
\* the copy of the frame made at line 358 and is what the comparisons read;
\* s.m_pixels is the frame itself, which markPattern writes.
RECURSIVE ScanColumns(_, _, _, _, _)
ScanColumns(pixels, patternToDetect, j, i, s) ==
    IF s.undefined \/ ~(i < SizeSub(Len(pixels[j + 1]), Len(patternToDetect[1])))
    THEN s
    ELSE LET c == CompareRows(pixels, patternToDetect, j, i, 0) IN
         ScanColumns(pixels, patternToDetect, j, i + 1,
             CASE c = "undefined" -> [s EXCEPT !.undefined = TRUE]
               [] c = "found" ->
                     [s EXCEPT !.m_pixels = markPattern(s.m_pixels, patternToDetect, i, j),
                               !.found = Append(s.found, <<j, i>>)]
               [] OTHER -> s)

\* The loop over j of lines 367-399 from row j on.
RECURSIVE ScanRows(_, _, _, _)
ScanRows(pixels, patternToDetect, j, s) ==
    IF s.undefined \/ ~(j < SizeSub(Len(pixels), Len(patternToDetect)))
    THEN s
    ELSE IF j >= Len(pixels)
         THEN [s EXCEPT !.undefined = TRUE]
         ELSE ScanRows(pixels, patternToDetect, j + 1,
                       ScanColumns(pixels, patternToDetect, j, 0, s))

\* checkPatternAndMarkExistingPatterns(videoFrame), lines 356-400: the frame
\* after the call, the anchors it reported and whether it read outside a vector.
checkPatternAndMarkExistingPatterns(pixels, patternToDetect) ==
    LET s == [m_pixels |-> pixels, found |-> <<>>, undefined |-> FALSE] IN
    IF PatternBiggerThanFrame(pixels, patternToDetect)
    THEN s
    ELSE ScanRows(pixels, patternToDetect, 0, s)

\* DetectorElement(pattern), lines 307-310, before any frame is handed to it.
DetectorElement(patternToDetect) ==
    /\ m_patternToDetect = patternToDetect
    /\ m_pixels = <<>>
    /\ runs = 0
    /\ before = <<>>
    /\ found = <<>>
    /\ undefined = FALSE

\* DetectorElement::process(videoFrame), lines 324-327.
DetectorElement_process ==
    /\ runs < MaxRuns
    /\ ~undefined
    /\ LET r == checkPatternAndMarkExistingPatterns(m_pixels, m_patternToDetect) IN
           /\ m_pixels' = r.m_pixels
           /\ found' = r.found
           /\ undefined' = r.undefined
    /\ before' = m_pixels
    /\ runs' = runs + 1
    /\ UNCHANGED <<m_patternToDetect, relayVars, sourceVars, pipelineVars, mainVars>>

\* VideoSourceElement::GenerateVideoFrame, lines 219-245: h rows of w cells,
\* each 0 or 1.
GenerateVideoFrame(w, h) == [1..h -> [1..w -> 0..1]]

\* The frames of at most MaxFrameCells cells.
Frames ==
    UNION {GenerateVideoFrame(d[1], d[2]) :
              d \in {e \in (0..MaxFrameCells) \X (0..MaxFrameCells) :
                        e[1] * e[2] <= MaxFrameCells}}

\* The patterns of 0 and 1 of at most MaxPatternCells cells, with at least
\* one row and one column.
Patterns ==
    UNION {[1..d[2] -> [1..d[1] -> 0..1]] :
              d \in {e \in (1..MaxPatternCells) \X (1..MaxPatternCells) :
                        e[1] * e[2] <= MaxPatternCells}}

\* A frame of the program's size that is empty but for the program's pattern
\* at rows 2-5, columns 3-5 (counted from 0).
ScenarioFrame ==
    [r \in 1..height |->
        [c \in 1..width |->
            IF r - 1 \in 2..5 /\ c - 1 \in 3..5 THEN pattern[r - 2][c - 3] ELSE 0]]

\* ------------------------------------------------------- VideoSourceElement
\* main's frameRate (line 571).
frameRate == 1

\* VideoSourceElement(width, height, frameRate), lines 135-138: the members as
\* the constructor leaves them.  frameRate is stored as it comes.
VideoSourceElement(rate) ==
    /\ m_frameRate = rate
    /\ source_runningState = FALSE
    /\ source_internalThread = "empty"
    /\ start_pc = "idle"
    /\ stop_pc = "idle"
    /\ g_pc = "none"
    /\ aborted = FALSE
    /\ joiners = {}
    /\ generated = 0
    /\ delay = -1

\* The outcomes of m_internalThread.join() called while another call has
\* joined or is joining the same thread.  Two calls of join() on one
\* std::thread object are a data race and a second pthread_join of one thread
\* is undefined: the call can block for ever, return, or throw system_error,
\* which nothing on the calling thread catches.
SecondJoinOutcomes == {"hung", "returned", "terminate"}

\* start(), line 152: if (!m_runningState).
start_test ==
    /\ ~aborted
    /\ start_pc = "idle"
    /\ start_pc' = IF ~source_runningState THEN "set" ELSE "joinable"
    /\ UNCHANGED <<m_frameRate, source_runningState, source_internalThread, stop_pc,
                   g_pc, aborted, joiners, generated, delay, relayVars, detectorVars, pipelineVars, mainVars>>

\* start(), line 154: m_runningState = true.
start_set ==
    /\ ~aborted
    /\ start_pc = "set"
    /\ source_runningState' = TRUE
    /\ start_pc' = "create"
    /\ UNCHANGED <<m_frameRate, source_internalThread, stop_pc, g_pc, aborted,
                   joiners, generated, delay, relayVars, detectorVars, pipelineVars, mainVars>>

\* start(), line 155: the thread that runs RandomVideoFramesGenerator is
\* created and assigned to m_internalThread.
start_create ==
    /\ ~aborted
    /\ start_pc = "create"
    /\ source_internalThread' = "joinable"
    /\ g_pc' = "loop"
    /\ start_pc' = "joinable"
    /\ UNCHANGED <<m_frameRate, source_runningState, stop_pc, aborted, joiners,
                   generated, delay, relayVars, detectorVars, pipelineVars, mainVars>>

\* start(), line 157: if (m_internalThread.joinable()).
start_joinable ==
    /\ ~aborted
    /\ start_pc = "joinable"
    /\ start_pc' = IF source_internalThread = "joinable" THEN "join" ELSE "returned"
    /\ UNCHANGED <<m_frameRate, source_runningState, source_internalThread, stop_pc,
                   g_pc, aborted, joiners, generated, delay, relayVars, detectorVars, pipelineVars, mainVars>>

\* start(), line 158: m_internalThread.join() is called.
start_join ==
    /\ ~aborted
    /\ start_pc = "join"
    /\ joiners' = joiners \cup {"start"}
    /\ IF joiners = {}
       THEN start_pc' = "joining" /\ aborted' = aborted
       ELSE \E outcome \in SecondJoinOutcomes :
                IF outcome = "terminate"
                THEN start_pc' = start_pc /\ aborted' = TRUE
                ELSE start_pc' = outcome /\ aborted' = aborted
    /\ UNCHANGED <<m_frameRate, source_runningState, source_internalThread, stop_pc,
                   g_pc, generated, delay, relayVars, detectorVars, pipelineVars, mainVars>>

\* start(), lines 158-160: join() returns when the thread has exited, leaving
\* m_internalThread not joinable, and start() returns.
start_joined ==
    /\ ~aborted
    /\ start_pc = "joining"
    /\ g_pc = "done"
    /\ source_internalThread' = "empty"
    /\ start_pc' = "returned"
    /\ UNCHANGED <<m_frameRate, source_runningState, stop_pc, g_pc, aborted, joiners,
                   generated, delay, relayVars, detectorVars, pipelineVars, mainVars>>

\* stop(), line 167: if (m_runningState).
stop_test ==
    /\ ~aborted
    /\ stop_pc = "idle"
    /\ stop_pc' = IF source_runningState THEN "set" ELSE "returned"
    /\ UNCHANGED <<m_frameRate, source_runningState, source_internalThread, start_pc,
                   g_pc, aborted, joiners, generated, delay, relayVars, detectorVars, pipelineVars, mainVars>>

\* stop(), line 169: m_runningState = false.
stop_set ==
    /\ ~aborted
    /\ stop_pc = "set"
    /\ source_runningState' = FALSE
    /\ stop_pc' = "joinable"
    /\ UNCHANGED <<m_frameRate, source_internalThread, start_pc, g_pc, aborted,
                   joiners, generated, delay, relayVars, detectorVars, pipelineVars, mainVars>>

\* stop(), line 170: if (m_internalThread.joinable()).
stop_joinable ==
    /\ ~aborted
    /\ stop_pc = "joinable"
    /\ stop_pc' = IF source_internalThread = "joinable" THEN "join" ELSE "returned"
    /\ UNCHANGED <<m_frameRate, source_runningState, source_internalThread, start_pc,
                   g_pc, aborted, joiners, generated, delay, relayVars, detectorVars, pipelineVars, mainVars>>

\* stop(), line 171: m_internalThread.join() is called.
stop_join ==
    /\ ~aborted
    /\ stop_pc = "join"
    /\ joiners' = joiners \cup {"stop"}
    /\ IF joiners = {}
       THEN stop_pc' = "joining" /\ aborted' = aborted
       ELSE \E outcome \in SecondJoinOutcomes :
                IF outcome = "terminate"
                THEN stop_pc' = stop_pc /\ aborted' = TRUE
                ELSE stop_pc' = outcome /\ aborted' = aborted
    /\ UNCHANGED <<m_frameRate, source_runningState, source_internalThread, start_pc,
                   g_pc, generated, delay, relayVars, detectorVars, pipelineVars, mainVars>>

\* stop(), lines 171-173: join() returns when the thread has exited.
stop_joined ==
    /\ ~aborted
    /\ stop_pc = "joining"
    /\ g_pc = "done"
    /\ source_internalThread' = "empty"
    /\ stop_pc' = "returned"
    /\ UNCHANGED <<m_frameRate, source_runningState, start_pc, g_pc, aborted, joiners,
                   generated, delay, relayVars, detectorVars, pipelineVars, mainVars>>

\* RandomVideoFramesGenerator, line 204: while (m_runningState).
RandomVideoFramesGenerator_loop ==
    /\ ~aborted
    /\ g_pc = "loop"
    /\ g_pc' = IF source_runningState THEN "generate" ELSE "done"
    /\ UNCHANGED <<m_frameRate, source_runningState, source_internalThread, start_pc,
                   stop_pc, aborted, joiners, generated, delay, relayVars, detectorVars, pipelineVars, mainVars>>

\* RandomVideoFramesGenerator, line 206: a frame is generated and handed to
\* the next elements, whose process and processAndPushDownstream return.
RandomVideoFramesGenerator_generate ==
    /\ ~aborted
    /\ g_pc = "generate"
    /\ generated' = IF generated < MaxGenerated THEN generated + 1 ELSE generated
    /\ g_pc' = "sleep"
    /\ UNCHANGED <<m_frameRate, source_runningState, source_internalThread, start_pc,
                   stop_pc, aborted, joiners, delay, relayVars, detectorVars, pipelineVars, mainVars>>

\* RandomVideoFramesGenerator, line 207: sleep_for(milliseconds(1000 /
\* m_frameRate)).  An int division by zero is undefined: the process is
\* terminated by a signal where the division traps, and goes on with a
\* quotient of 0 where it does not.
RandomVideoFramesGenerator_sleep ==
    /\ ~aborted
    /\ g_pc = "sleep"
    /\ IF m_frameRate = 0
       THEN \/ aborted' = TRUE /\ g_pc' = g_pc /\ delay' = 0
            \/ aborted' = aborted /\ g_pc' = "loop" /\ delay' = 0
       ELSE aborted' = aborted /\ g_pc' = "loop" /\ delay' = 1000 \div m_frameRate
    /\ UNCHANGED <<m_frameRate, source_runningState, source_internalThread, start_pc,
                   stop_pc, joiners, generated, relayVars, detectorVars, pipelineVars, mainVars>>

\* -------------------------------------------------------------- BaseElement
Elements == 1..MaxElements

Kinds == {"VideoSourceElement", "DisplayElement", "DetectorElement", "AsynchronousQueue"}

\* The thread of the first element's RandomVideoFramesGenerator is thread 0;
\* the thread of the AsynchronousQueue q is thread q.
Threads == 0..MaxElements

\* The elements main creates (lines 581-607), before any link.
Elements_main ==
    <<"VideoSourceElement", "AsynchronousQueue", "DetectorElement", "DisplayElement">>

\* Elements with the given classes, as their constructors leave them (line
\* 88: m_nextElements{}).
BaseElement(kinds) ==
    /\ kind = kinds
    /\ m_nextElements = [e \in Elements |-> <<>>]
    /\ linkResult = 0
    /\ phase = "assembly"
    /\ stacks = [t \in Threads |-> <<>>]
    /\ pending = [e \in Elements |-> 0]
    /\ linkLog = <<>>
    /\ callLog = <<>>

\* link returning the element it was called on.
link_returnsThis(nextElements, this, element) ==
    [m_nextElements |-> [nextElements EXCEPT ![this] = Append(@, element)],
     result |-> this]

\* BaseElement::link, lines 101-105: push_back(element); return element.
link(nextElements, this, element) ==
    [m_nextElements |-> [nextElements EXCEPT ![this] = Append(@, element)],
     result |-> element]

\* main calls a->link(b) (lines 622-623).  Links go from a lower to a higher
\* element, which keeps the graph acyclic.
BaseElement_link ==
    /\ phase = "assembly"
    /\ Len(linkLog) < MaxLinks
    /\ \E this \in Elements :
           \E element \in Elements :
               /\ this < element
               /\ LET r == link(m_nextElements, this, element) IN
                      /\ m_nextElements' = r.m_nextElements
                      /\ linkResult' = r.result
               /\ linkLog' = Append(linkLog, [this |-> this, element |-> element,
                                              chained |-> FALSE])
    /\ UNCHANGED <<kind, phase, stacks, pending, callLog, relayVars, detectorVars,
                   sourceVars, mainVars>>

\* main calls ->link(c) on the value the previous call of link returned (line
\* 622).
BaseElement_link_chained ==
    /\ phase = "assembly"
    /\ Len(linkLog) < MaxLinks
    /\ linkResult # 0
    /\ \E element \in Elements :
           /\ linkResult < element
           /\ LET r == link(m_nextElements, linkResult, element) IN
                  /\ m_nextElements' = r.m_nextElements
                  /\ linkResult' = r.result
           /\ linkLog' = Append(linkLog, [this |-> linkResult, element |-> element,
                                          chained |-> TRUE])
    /\ UNCHANGED <<kind, phase, stacks, pending, callLog, relayVars, detectorVars,
                   sourceVars, mainVars>>

\* A call of processAndPushDownstream on element e that has called nothing yet.
Call(e) == [elem |-> e, idx |-> 1, next |-> "process"]

\* The for_each body that goes from process to the next element at once.
Advance_processOnly(f) == [f EXCEPT !.idx = @ + 1, !.next = "process"]

\* The for_each body of lines 115-117: element->process(videoFrame), then
\* element->processAndPushDownstream(videoFrame), then the next element.
Advance(f) ==
    IF f.next = "process"
    THEN [f EXCEPT !.next = "processAndPushDownstream"]
    ELSE [f EXCEPT !.idx = @ + 1, !.next = "process"]

Top(t) == stacks[t][Len(stacks[t])]

\* The thread's innermost for_each is at an element that is still to be called.
AtElement(t) ==
    /\ stacks[t] # <<>>
    /\ Top(t).idx <= Len(m_nextElements[Top(t).elem])

Current(t) == m_nextElements[Top(t).elem][Top(t).idx]

Event(op, t) ==
    [op |-> op, thread |-> t, parent |-> Top(t).elem, idx |-> Top(t).idx,
     elem |-> Current(t)]

\* RandomVideoFramesGenerator, line 206: the first element's thread calls
\* processAndPushDownstream with a generated frame.
RandomVideoFramesGenerator_propagate ==
    /\ phase = "assembly"
    /\ kind[1] = "VideoSourceElement"
    /\ phase' = "run"
    /\ stacks' = [stacks EXCEPT ![0] = <<Call(1)>>]
    /\ UNCHANGED <<kind, m_nextElements, linkResult, pending, linkLog, callLog,
                   relayVars, detectorVars, sourceVars, mainVars>>

\* DisplayElement::process (lines 265-269) and DetectorElement::process (lines
\* 324-327): the element handles the frame and returns.
DisplayOrDetector_process ==
    \E t \in Threads :
        /\ AtElement(t)
        /\ Top(t).next = "process"
        /\ kind[Current(t)] \in {"DisplayElement", "DetectorElement"}
        /\ callLog' = Append(callLog, Event("process", t))
        /\ stacks' = [stacks EXCEPT ![t][Len(stacks[t])] = Advance(@)]
        /\ UNCHANGED <<kind, m_nextElements, linkResult, phase, pending, linkLog,
                       relayVars, detectorVars, sourceVars, mainVars>>

\* AsynchronousQueue::process, lines 447-451: the frame is handed to the
\* queue's thread and the call returns.
AsynchronousQueue_process ==
    \E t \in Threads :
        /\ AtElement(t)
        /\ Top(t).next = "process"
        /\ kind[Current(t)] = "AsynchronousQueue"
        /\ callLog' = Append(callLog, Event("process", t))
        /\ pending' = [pending EXCEPT ![Current(t)] = @ + 1]
        /\ stacks' = [stacks EXCEPT ![t][Len(stacks[t])] = Advance(@)]
        /\ UNCHANGED <<kind, m_nextElements, linkResult, phase, linkLog, relayVars,
                       detectorVars, sourceVars, mainVars>>

\* VideoSourceElement::process, lines 181-184: calls processAndPushDownstream
\* on itself.
VideoSourceElement_process ==
    \E t \in Threads :
        /\ AtElement(t)
        /\ Top(t).next = "process"
        /\ kind[Current(t)] = "VideoSourceElement"
        /\ callLog' = Append(callLog, Event("process", t))
        /\ stacks' = [stacks EXCEPT ![t] = Append(@, Call(Current(t)))]
        /\ UNCHANGED <<kind, m_nextElements, linkResult, phase, pending, linkLog,
                       relayVars, detectorVars, sourceVars, mainVars>>

\* BaseElement::processAndPushDownstream is called on the element (line 116).
BaseElement_processAndPushDownstream ==
    \E t \in Threads :
        /\ AtElement(t)
        /\ Top(t).next = "processAndPushDownstream"
        /\ kind[Current(t)] # "AsynchronousQueue"
        /\ callLog' = Append(callLog, Event("push", t))
        /\ stacks' = [stacks EXCEPT ![t] = Append(@, Call(Current(t)))]
        /\ UNCHANGED <<kind, m_nextElements, linkResult, phase, pending, linkLog,
                       relayVars, detectorVars, sourceVars, mainVars>>

\* An AsynchronousQueue that inherits BaseElement::processAndPushDownstream.
AsynchronousQueue_processAndPushDownstream_inherited ==
    \E t \in Threads :
        /\ AtElement(t)
        /\ Top(t).next = "processAndPushDownstream"
        /\ kind[Current(t)] = "AsynchronousQueue"
        /\ callLog' = Append(callLog, Event("push", t))
        /\ stacks' = [stacks EXCEPT ![t] = Append(@, Call(Current(t)))]
        /\ UNCHANGED <<kind, m_nextElements, linkResult, phase, pending, linkLog,
                       relayVars, detectorVars, sourceVars, mainVars>>

\* AsynchronousQueue::processAndPushDownstream, lines 460-464: returns at once.
AsynchronousQueue_processAndPushDownstream ==
    \E t \in Threads :
        /\ AtElement(t)
        /\ Top(t).next = "processAndPushDownstream"
        /\ kind[Current(t)] = "AsynchronousQueue"
        /\ callLog' = callLog \o <<Event("push", t), Event("pushed", t)>>
        /\ stacks' = [stacks EXCEPT ![t][Len(stacks[t])] = Advance(@)]
        /\ UNCHANGED <<kind, m_nextElements, linkResult, phase, pending, linkLog,
                       relayVars, detectorVars, sourceVars, mainVars>>

\* The for_each of lines 115-117 (or of lines 553-556) is past the last
\* element: the call returns to the for_each that made it, which goes on.
processAndPushDownstream_return ==
    \E t \in Threads :
        /\ stacks[t] # <<>>
        /\ ~AtElement(t)
        /\ LET rest == SubSeq(stacks[t], 1, Len(stacks[t]) - 1) IN
               IF rest = <<>>
               THEN /\ stacks' = [stacks EXCEPT ![t] = <<>>]
                    /\ callLog' = callLog
               ELSE LET f == rest[Len(rest)] IN
                        /\ stacks' = [stacks EXCEPT
                                          ![t] = [rest EXCEPT ![Len(rest)] = Advance(f)]]
                        /\ callLog' = Append(callLog,
                               [op |-> IF f.next = "process" THEN "processed"
                                                               ELSE "pushed",
                                thread |-> t, parent |-> f.elem, idx |-> f.idx,
                                elem |-> m_nextElements[f.elem][f.idx]])
        /\ UNCHANGED <<kind, m_nextElements, linkResult, phase, pending, linkLog,
                       relayVars, detectorVars, sourceVars, mainVars>>

\* waitForNewVideoFrame, lines 541-556: the queue's thread takes a frame that
\* was handed to it and begins the for_each over the queue's m_nextElements.
waitForNewVideoFrame_forEach ==
    \E q \in Elements :
        /\ kind[q] = "AsynchronousQueue"
        /\ pending[q] > 0
        /\ stacks[q] = <<>>
        /\ pending' = [pending EXCEPT ![q] = @ - 1]
        /\ stacks' = [stacks EXCEPT ![q] = <<Call(q)>>]
        /\ UNCHANGED <<kind, m_nextElements, linkResult, phase, linkLog, callLog,
                       relayVars, detectorVars, sourceVars, mainVars>>

\* --------------------------------------------------------------------- main
\* Before videoSourceElement->start() (line 625): no frame exists and neither
\* the display nor the detector has been called.
main ==
    /\ pixelsOf = <<>>
    /\ display_pc = "idle"
    /\ displayed = 0
    /\ detector_pc = "idle"
    /\ detected = 0

\* The frames GenerateVideoFrame is taken to return here: an empty frame and
\* one that holds the pattern once.
GeneratedFrames == {ScenarioFrame, [r \in 1..height |-> [c \in 1..width |-> 0]]}

\* RandomVideoFramesGenerator, line 206: GenerateVideoFrame() once the source's
\* thread is back from the display and from the sleep of line 207.
RandomVideoFramesGenerator_GenerateVideoFrame ==
    /\ p_pc = "idle"
    /\ display_pc = "idle"
    /\ displayed = Len(enqueued)
    /\ Len(pixelsOf) = Len(enqueued)
    /\ Len(pixelsOf) < MaxFrames
    /\ \E pixels \in GeneratedFrames : pixelsOf' = Append(pixelsOf, pixels)
    /\ UNCHANGED <<display_pc, displayed, detector_pc, detected, relayVars,
                   detectorVars, sourceVars, pipelineVars>>

\* The source's thread calls process on its first next element, the queue
\* (lines 115-116, 622), with the frame it has just generated.
main_process_start ==
    /\ Len(pixelsOf) = Len(enqueued) + 1
    /\ process_start

\* The source's thread calls process on its second next element, the display
\* (lines 115-116, 623), after the queue's process and (empty)
\* processAndPushDownstream have returned: printVideoFrame begins to read the
\* frame's m_pixels (lines 282-284).
printVideoFrame_begin ==
    /\ p_pc = "idle"
    /\ display_pc = "idle"
    /\ displayed < Len(enqueued)
    /\ display_pc' = "reading"
    /\ UNCHANGED <<pixelsOf, displayed, detector_pc, detected, relayVars,
                   detectorVars, sourceVars, pipelineVars>>

\* printVideoFrame, lines 284-293: the last cell is read and the call returns.
printVideoFrame_end ==
    /\ display_pc = "reading"
    /\ display_pc' = "idle"
    /\ displayed' = displayed + 1
    /\ UNCHANGED <<pixelsOf, detector_pc, detected, relayVars, detectorVars,
                   sourceVars, pipelineVars>>

\* The queue's thread, in the for_each of lines 553-556, calls the detector's
\* process: checkPatternAndMarkExistingPatterns copies m_pixels (line 358)
\* and searches the copy.
checkPatternAndMarkExistingPatterns_begin ==
    /\ w_pc = "forward"
    /\ detector_pc = "idle"
    /\ detected < Len(forwarded)
    /\ detector_pc' = "search"
    /\ UNCHANGED <<pixelsOf, display_pc, displayed, detected, relayVars,
                   detectorVars, sourceVars, pipelineVars>>

\* Lines 367-400: the search ends without an occurrence, or reaches the first
\* markPattern (line 379 or 387).
checkPatternAndMarkExistingPatterns_search ==
    /\ detector_pc = "search"
    /\ LET r == checkPatternAndMarkExistingPatterns(pixelsOf[newVideoFrame], pattern) IN
           detector_pc' = IF r.found # <<>> THEN "marking" ELSE "return"
    /\ UNCHANGED <<pixelsOf, display_pc, displayed, detected, relayVars,
                   detectorVars, sourceVars, pipelineVars>>

\* markPattern, lines 339-348: the cells of the occurrences have been written
\* in the frame's m_pixels, up to the last markPattern of the call.
markPattern_end ==
    /\ detector_pc = "marking"
    /\ LET r == checkPatternAndMarkExistingPatterns(pixelsOf[newVideoFrame], pattern) IN
           pixelsOf' = [pixelsOf EXCEPT ![newVideoFrame] = r.m_pixels]
    /\ detector_pc' = "return"
    /\ UNCHANGED <<display_pc, displayed, detected, relayVars, detectorVars,
                   sourceVars, pipelineVars>>

\* DetectorElement::process returns (line 327).
DetectorElement_process_return ==
    /\ detector_pc = "return"
    /\ detector_pc' = "idle"
    /\ detected' = detected + 1
    /\ UNCHANGED <<pixelsOf, display_pc, displayed, relayVars, detectorVars,
                   sourceVars, pipelineVars>>

\* waitForNewVideoFrame, lines 553-556: the for_each returns once the
\* detector's process and processAndPushDownstream have.
main_waitForNewVideoFrame_forward ==
    /\ detector_pc = "idle"
    /\ detected = Len(forwarded)
    /\ waitForNewVideoFrame_forward

\* ------------------------------------------------------------ specifications

Init ==
    /\ \E queueMaxSize \in 0..MaxCapacity : AsynchronousQueue(queueMaxSize)
    /\ DetectorElement(pattern)
    /\ VideoSourceElement(frameRate)
    /\ BaseElement(Elements_main)
    /\ main

Next ==
    \/ process_start
    \/ pushNewVideoFrame_check
    \/ pushNewVideoFrame_lock
    \/ pushNewVideoFrame_push
    \/ pushNewVideoFrame_notify
    \/ waitForNewVideoFrame_lock
    \/ waitForNewVideoFrame_wait
    \/ waitForNewVideoFrame_spurious
    \/ waitForNewVideoFrame_wake
    \/ waitForNewVideoFrame_pop
    \/ waitForNewVideoFrame_check
    \/ waitForNewVideoFrame_forward
    \/ waitForNewVideoFrame_relock
    \/ waitForNewVideoFrame_loop
    \/ destructor_stop
    \/ destructor_notify
    \/ destructor_join
    \/ destructor_flush

Spec == Init /\ [][Next]_vars

\* Every thread that can take a step is scheduled in the end: weak fairness on
\* the steps inside a call of process() that has begun, on the steps of the
\* queue's thread and on the steps of a destructor that has begun.
FairSpec ==
    /\ Spec
    /\ WF_vars(pushNewVideoFrame_check)
    /\ WF_vars(pushNewVideoFrame_lock)
    /\ WF_vars(pushNewVideoFrame_push)
    /\ WF_vars(pushNewVideoFrame_notify)
    /\ WF_vars(waitForNewVideoFrame_lock)
    /\ WF_vars(waitForNewVideoFrame_wait)
    /\ WF_vars(waitForNewVideoFrame_wake)
    /\ WF_vars(waitForNewVideoFrame_pop)
    /\ WF_vars(waitForNewVideoFrame_check)
    /\ WF_vars(waitForNewVideoFrame_forward)
    /\ WF_vars(waitForNewVideoFrame_relock)
    /\ WF_vars(waitForNewVideoFrame_loop)
    /\ WF_vars(destructor_notify)
    /\ WF_vars(destructor_join)
    /\ WF_vars(destructor_flush)

\* The detector on its own: a pattern and a generated frame, then calls of
\* process on that frame.
MatcherInit ==
    /\ AsynchronousQueue(asyncQueueMaxSize)
    /\ VideoSourceElement(frameRate)
    /\ BaseElement(Elements_main)
    /\ main
    /\ runs = 0
    /\ before = <<>>
    /\ found = <<>>
    /\ undefined = FALSE
    /\ \/ m_patternToDetect \in Patterns /\ m_pixels \in Frames
       \/ m_patternToDetect = pattern /\ m_pixels = ScenarioFrame

MatcherNext == DetectorElement_process

MatcherSpec == MatcherInit /\ [][MatcherNext]_vars

\* The VideoSourceElement on its own: one thread calls start(), another calls
\* stop(), in any order and at any moment.
SourceInit ==
    /\ AsynchronousQueue(asyncQueueMaxSize)
    /\ DetectorElement(pattern)
    /\ \E rate \in 0..MaxFrameRate : VideoSourceElement(rate)
    /\ BaseElement(Elements_main)
    /\ main

SourceNext ==
    \/ start_test
    \/ start_set
    \/ start_create
    \/ start_joinable
    \/ start_join
    \/ start_joined
    \/ stop_test
    \/ stop_set
    \/ stop_joinable
    \/ stop_join
    \/ stop_joined
    \/ RandomVideoFramesGenerator_loop
    \/ RandomVideoFramesGenerator_generate
    \/ RandomVideoFramesGenerator_sleep

SourceSpec == SourceInit /\ [][SourceNext]_vars

\* Every thread that can take a step is scheduled in the end; whether and
\* when start() and stop() are called is up to the callers.
SourceFairSpec ==
    /\ SourceSpec
    /\ WF_vars(start_set)
    /\ WF_vars(start_create)
    /\ WF_vars(start_joinable)
    /\ WF_vars(start_join)
    /\ WF_vars(start_joined)
    /\ WF_vars(stop_set)
    /\ WF_vars(stop_joinable)
    /\ WF_vars(stop_join)
    /\ WF_vars(stop_joined)
    /\ WF_vars(RandomVideoFramesGenerator_loop)
    /\ WF_vars(RandomVideoFramesGenerator_generate)
    /\ WF_vars(RandomVideoFramesGenerator_sleep)

\* The elements, their links and one frame: main links the elements, then the
\* first element, a VideoSourceElement, propagates a frame.
PipelineInit ==
    /\ AsynchronousQueue(asyncQueueMaxSize)
    /\ DetectorElement(pattern)
    /\ VideoSourceElement(frameRate)
    /\ \E kinds \in [Elements -> Kinds] :
           /\ kinds[1] = "VideoSourceElement"
           /\ BaseElement(kinds)
    /\ main

PipelineNext ==
    \/ BaseElement_link
    \/ BaseElement_link_chained
    \/ RandomVideoFramesGenerator_propagate
    \/ DisplayOrDetector_process
    \/ AsynchronousQueue_process
    \/ VideoSourceElement_process
    \/ BaseElement_processAndPushDownstream
    \/ AsynchronousQueue_processAndPushDownstream
    \/ processAndPushDownstream_return
    \/ waitForNewVideoFrame_forEach

PipelineSpec == PipelineInit /\ [][PipelineNext]_vars

\* main's pipeline, source -> [queue -> detector, display], running: the
\* source's thread generates a frame, hands it to the queue and then to the
\* display; the queue's thread hands it to the detector.  main never deletes
\* the queue while the source runs.
MainInit ==
    /\ AsynchronousQueue(asyncQueueMaxSize)
    /\ DetectorElement(pattern)
    /\ VideoSourceElement(frameRate)
    /\ BaseElement(Elements_main)
    /\ main

MainNext ==
    \/ RandomVideoFramesGenerator_GenerateVideoFrame
    \/ main_process_start
    \/ pushNewVideoFrame_check
    \/ pushNewVideoFrame_lock
    \/ pushNewVideoFrame_push
    \/ pushNewVideoFrame_notify
    \/ printVideoFrame_begin
    \/ printVideoFrame_end
    \/ waitForNewVideoFrame_lock
    \/ waitForNewVideoFrame_wait
    \/ waitForNewVideoFrame_spurious
    \/ waitForNewVideoFrame_wake
    \/ waitForNewVideoFrame_pop
    \/ waitForNewVideoFrame_check
    \/ checkPatternAndMarkExistingPatterns_begin
    \/ checkPatternAndMarkExistingPatterns_search
    \/ markPattern_end
    \/ DetectorElement_process_return
    \/ main_waitForNewVideoFrame_forward
    \/ waitForNewVideoFrame_relock
    \/ waitForNewVideoFrame_loop

MainSpec == MainInit /\ [][MainNext]_vars

\* ------------------------------------------------------------------ claims

\* C1: with a queue size N >= 1, when more than N frames were queued before
\* the thread took its first frame, the only frames of that burst that are
\* ever forwarded are its N newest.
C1_OnlyNewestOfBurstForwarded ==
    (m_queueMaxSize >= 1 /\ burst > m_queueMaxSize) =>
        \A n \in 1..Len(forwarded) :
            forwarded[n] <= burst => forwarded[n] > burst - m_queueMaxSize

\* C2: the queue never holds more frames than m_queueMaxSize.
C2_QueueWithinCapacity == Len(m_videoFramesQueue) <= m_queueMaxSize

\* C3: once the destructor of a started queue has begun, it completes.
C3_TeardownCompletes ==
    (m_startedState /\ d_pc # "alive") ~> (d_pc = "done")

\* C4: the queue's thread does not hold the mutex from the moment it has
\* popped a frame until the next elements have returned, so a caller of
\* process() waiting for the mutex meanwhile can take it.
C4_ForwardsWithoutLock ==
    /\ w_pc \in {"check", "forward", "relock"} => m_queueLock # "worker"
    /\ (w_pc = "forward" /\ p_pc = "lock") => ENABLED pushNewVideoFrame_lock

\* A caller of process() holds the mutex while the next elements are running.
C4_Witness == w_pc = "forward" /\ p_pc = "locked" /\ m_queueLock = "producer"

\* s is a subsequence of t (elements of t, in t's order, none used twice).
RECURSIVE IsSubsequence(_, _)
IsSubsequence(s, t) ==
    IF s = <<>> THEN TRUE
    ELSE IF t = <<>> THEN FALSE
    ELSE IF Head(s) = Head(t) THEN IsSubsequence(Tail(s), Tail(t))
    ELSE IsSubsequence(s, Tail(t))

\* C5: the frames forwarded so far are a subsequence of the frames passed to
\* process(): forwarded in the order they were passed, each at most once, and
\* none that was not passed.
C5_ForwardedIsSubsequence == IsSubsequence(forwarded, enqueued)

\* Two frames were forwarded and an older one was dropped in between or before.
C5_Witness ==
    /\ Len(forwarded) >= 2
    /\ \E f \in 1..Len(enqueued) :
           /\ f < forwarded[Len(forwarded)]
           /\ \A n \in 1..Len(forwarded) : forwarded[n] # f

\* C6: with a queue size of 0 no frame is ever queued, taken by the thread or
\* forwarded.
C6_CapacityZeroForwardsNothing ==
    m_queueMaxSize = 0 =>
        /\ m_videoFramesQueue = <<>>
        /\ newVideoFrame = 0
        /\ forwarded = <<>>
        /\ w_pc \notin {"drain", "check", "forward", "relock"}

\* Two calls of process() have returned on a queue of size 0 whose thread is
\* suspended.
C6_Witness ==
    m_queueMaxSize = 0 /\ Len(enqueued) >= 2 /\ p_pc = "idle" /\ w_pc = "suspended"

\* The anchors <<j, i>> (counted from 0) at which the whole pattern lies
\* inside pixels.
FittingAnchors(pixels, patternToDetect) ==
    IF pixels = <<>> THEN {}
    ELSE (0..(Len(pixels) - Len(patternToDetect)))
             \X (0..(Len(pixels[1]) - Len(patternToDetect[1])))

\* pixels holds the pattern at anchor a.
Occurs(pixels, patternToDetect, a) ==
    \A k \in 1..Len(patternToDetect) :
        \A c \in 1..Len(patternToDetect[k]) :
            pixels[a[1] + k][a[2] + c] = patternToDetect[k][c]

\* The cell in row r, column c (counted from 1) lies in the footprint of a
\* reported anchor.
InFoundFootprint(r, c) ==
    \E n \in 1..Len(found) :
        /\ found[n][1] <= r - 1
        /\ r - 1 < found[n][1] + Len(m_patternToDetect)
        /\ found[n][2] <= c - 1
        /\ c - 1 < found[n][2] + Len(m_patternToDetect[1])

\* C7: after a call, every anchor at which the whole pattern fits and the
\* frame held the pattern has been reported.
C7_EveryFittingOccurrenceFound ==
    runs >= 1 =>
        \A a \in FittingAnchors(before, m_patternToDetect) :
            Occurs(before, m_patternToDetect, a) =>
                \E n \in 1..Len(found) : found[n] = a

\* C8: after a call the frame has the size it had; every reported anchor held
\* the pattern; a cell that was 1 and lies in the footprint of a reported
\* anchor is 2, and every other cell is what it was.
C8_OnlyMatchedActiveCellsMarked ==
    runs >= 1 =>
        /\ ~undefined
        /\ Len(m_pixels) = Len(before)
        /\ \A n \in 1..Len(found) : Occurs(before, m_patternToDetect, found[n])
        /\ \A r \in 1..Len(before) :
               /\ Len(m_pixels[r]) = Len(before[r])
               /\ \A c \in 1..Len(before[r]) :
                      m_pixels[r][c] =
                          IF before[r][c] = 1 /\ InFoundFootprint(r, c)
                          THEN 2
                          ELSE before[r][c]

\* The program's pattern was found at rows 2-5, columns 3-5 of the program's
\* otherwise empty frame: its 1 cells are 2 and its 0 cells are 0.
C8_Witness ==
    /\ runs = 1
    /\ before = ScenarioFrame
    /\ found = << <<2, 3>> >>
    /\ m_pixels[3] = [c \in 1..width |-> IF c = 5 THEN 2 ELSE 0]
    /\ m_pixels[4] = [c \in 1..width |-> IF c \in 4..6 THEN 2 ELSE 0]
    /\ m_pixels[6] = [c \in 1..width |-> IF c \in {4, 6} THEN 2 ELSE 0]

\* The frame has fewer rows than the pattern, or its rows are shorter than
\* the pattern's.
SmallerThanPattern(pixels, patternToDetect) ==
    \/ Len(pixels) < Len(patternToDetect)
    \/ \E r \in 1..Len(pixels) : Len(pixels[r]) < Len(patternToDetect[1])

\* C9: a call on a frame smaller than the pattern in either dimension returns
\* without reading outside a vector, reports nothing and leaves the frame as
\* it was.
C9_SmallFrameUnchanged ==
    (runs >= 1 /\ SmallerThanPattern(before, m_patternToDetect)) =>
        /\ ~undefined
        /\ found = <<>>
        /\ m_pixels = before

\* A call was made on a frame with more rows than the pattern, rows shorter
\* than the pattern's, and an active cell.
C9_Witness ==
    /\ runs >= 1
    /\ Len(before) > Len(m_patternToDetect)
    /\ Len(before[1]) >= 1
    /\ Len(before[1]) < Len(m_patternToDetect[1])
    /\ before[1][1] = 1

\* C10: a second call on the frame leaves it as the first call left it.
C10_SecondRunChangesNothing == runs >= 2 => m_pixels = before

\* The first call marked two overlapping occurrences and a second call was
\* made on the marked frame.
C10_Witness ==
    /\ runs = 2
    /\ m_patternToDetect = << <<1, 1>> >>
    /\ m_pixels = << <<2, 2, 2, 1>>, <<0, 0, 0, 0>> >>

\* The anchors the loops of lines 367 and 374 visit: rows 0 .. H - PH - 1 and
\* columns 0 .. W - PW - 1 of a frame that is not smaller than the pattern.
ExaminedAnchors(pixels, patternToDetect) ==
    IF SmallerThanPattern(pixels, patternToDetect) \/ pixels = <<>> THEN {}
    ELSE (0..(Len(pixels) - Len(patternToDetect) - 1))
             \X (0..(Len(pixels[1]) - Len(patternToDetect[1]) - 1))

\* Two anchors whose footprints share a cell that is not 0 in pixels.
ShareActiveCell(pixels, patternToDetect, a, b) ==
    \E r \in 1..Len(pixels) :
        \E c \in 1..Len(pixels[r]) :
            /\ pixels[r][c] # 0
            /\ a[1] <= r - 1 /\ r - 1 < a[1] + Len(patternToDetect)
            /\ a[2] <= c - 1 /\ c - 1 < a[2] + Len(patternToDetect[1])
            /\ b[1] <= r - 1 /\ r - 1 < b[1] + Len(patternToDetect)
            /\ b[2] <= c - 1 /\ c - 1 < b[2] + Len(patternToDetect[1])

\* C16 as stated: an occurrence that shares an active cell with an anchor
\* reported earlier in the same call is not reported.
C16_OverlappingOccurrenceNotFound ==
    runs >= 1 =>
        \A m \in 1..Len(found) :
            \A n \in (m + 1)..Len(found) :
                ~ShareActiveCell(before, m_patternToDetect, found[m], found[n])

\* C16 amended: the comparisons read the copy of the frame made when the call
\* began, so the anchors reported are exactly the visited anchors at which
\* that copy held the pattern, each once and in row-major order, whether or
\* not they overlap an anchor reported earlier.
C16_FoundAgainstCopy ==
    runs >= 1 =>
        /\ \A a \in ExaminedAnchors(before, m_patternToDetect) :
               Occurs(before, m_patternToDetect, a) =>
                   \E n \in 1..Len(found) : found[n] = a
        /\ \A n \in 1..Len(found) :
               /\ found[n] \in ExaminedAnchors(before, m_patternToDetect)
               /\ Occurs(before, m_patternToDetect, found[n])
        /\ \A m \in 1..Len(found) :
               \A n \in (m + 1)..Len(found) :
                   \/ found[m][1] < found[n][1]
                   \/ found[m][1] = found[n][1] /\ found[m][2] < found[n][2]

\* Pattern [[1,1]] on rows [1,1,1,0], [0,0,0,0]: both overlapping occurrences
\* are reported and the first three cells are marked.
C16_Witness ==
    /\ runs = 1
    /\ m_patternToDetect = << <<1, 1>> >>
    /\ before = << <<1, 1, 1, 0>>, <<0, 0, 0, 0>> >>
    /\ found = << <<0, 0>>, <<0, 1>> >>
    /\ m_pixels = << <<2, 2, 2, 0>>, <<0, 0, 0, 0>> >>

\* C17: once the destructor has set the state to stopped, the thread forwards
\* no frame any more (a frame counts as forwarded from the moment the thread
\* has passed the test of line 549 for it), and the frame it holds when the
\* test of line 549 sees the stop is dropped: it is not forwarded, the queue is
\* left as it is, and the thread goes to the test of line 560.
C17_StopEndsForwarding ==
    [][d_pc # "alive" =>
          /\ forwarded' = forwarded
          /\ (w_pc = "check" /\ w_pc' # "check") =>
                 /\ w_pc' = "loop"
                 /\ newVideoFrame' = 0
                 /\ m_videoFramesQueue' = m_videoFramesQueue]_vars

\* The thread has left the while loop by the break of line 550 (only then is
\* the mutex free at line 560) after frames were forwarded, and frames are
\* still queued.
C17_Witness ==
    /\ d_pc # "alive"
    /\ ~m_runningState
    /\ w_pc = "loop"
    /\ m_queueLock = "free"
    /\ Len(forwarded) >= 1
    /\ Len(m_videoFramesQueue) >= 1

\* C18: when the destructor has returned, the thread has exited (or was never
\* created), holds no frame, and the queue is empty; an exited thread calls no
\* next element.
C18_TeardownLeavesNothing ==
    d_pc = "done" =>
        /\ w_pc \in {"none", "done"}
        /\ newVideoFrame = 0
        /\ m_videoFramesQueue = <<>>

\* Three frames were queued, none was forwarded and the thread dropped at most
\* one at line 550: line 438 released the others.
C18_Witness ==
    /\ d_pc = "done"
    /\ w_pc = "done"
    /\ m_queueMaxSize = 2
    /\ Len(enqueued) = 3
    /\ forwarded = <<>>

\* C19: no thread exists before the first process() call, the first call
\* creates one and sets the started and running states, no later call creates
\* another, and start() creates a thread exactly when m_startedState is false,
\* whatever m_runningState is.
C19_OneThreadLazily ==
    /\ threadsCreated = (IF Len(enqueued) = 0 THEN 0 ELSE 1)
    /\ m_startedState <=> (Len(enqueued) >= 1)
    /\ (w_pc = "none") <=> (Len(enqueued) = 0)
    /\ (Len(enqueued) >= 1 /\ d_pc = "alive") => m_runningState
    /\ \A startedState \in BOOLEAN :
           \A runningState \in BOOLEAN :
               LET r == start(startedState, runningState) IN
                   /\ r.created <=> ~startedState
                   /\ startedState => r.runningState = runningState

\* A third process() call is in progress and one thread was created.
C19_Witness ==
    /\ threadsCreated = 1
    /\ Len(enqueued) = 3
    /\ p_pc = "push"
    /\ w_pc # "none"

\* The frame was appended to the queue and is in neither the queue, the
\* thread's hands nor the forwarded frames: checkQueueSizeConstraint erased it.
Evicted(f) ==
    /\ f <= Pushed
    /\ \A n \in 1..Len(m_videoFramesQueue) : m_videoFramesQueue[n] # f
    /\ \A n \in 1..Len(forwarded) : forwarded[n] # f
    /\ newVideoFrame # f

\* C20: under fair scheduling every queued frame is forwarded, unless it is
\* erased by checkQueueSizeConstraint or the destructor sets the state to
\* stopped.
C20_QueuedFrameForwarded ==
    \A f \in 1..MaxFrames :
        (\E n \in 1..Len(m_videoFramesQueue) : m_videoFramesQueue[n] = f)
            ~> \/ \E n \in 1..Len(forwarded) : forwarded[n] = f
               \/ Evicted(f)
               \/ d_pc # "alive"

\* Every frame was forwarded, the last ones after a notification, and the
\* thread waits for the next.
C20_Witness ==
    /\ d_pc = "alive"
    /\ w_pc = "suspended"
    /\ Len(enqueued) >= 3
    /\ forwarded = enqueued

\* C12: a VideoSourceElement constructed with a frameRate of 0 is refused:
\* no thread is created for it, no frame is generated and 1000 / m_frameRate
\* is never computed.
C12_ZeroFrameRateRejected ==
    m_frameRate = 0 =>
        /\ g_pc = "none"
        /\ generated = 0
        /\ delay = -1

\* C13: start() does not return while the state is running; once stop() has
\* written false to m_runningState, the generator thread that reaches the test
\* of line 204 generates nothing more and exits; and after that write start()
\* and stop() both return.
C13_StartBlocksStopReleases ==
    /\ [](start_pc = "returned" => ~source_runningState)
    /\ [][(g_pc = "loop" /\ ~source_runningState /\ stop_pc \notin {"idle", "set"})
              => (g_pc' \in {"loop", "done"} /\ generated' = generated)]_vars
    /\ (stop_pc = "joinable") ~> (start_pc = "returned" /\ stop_pc = "returned")

\* The events of the call log that happened on thread t, in order.
ThreadLog(t) == SelectSeq(callLog, LAMBDA ev : ev.thread = t)

\* On every thread, the process of the i-th next element (i > 1) of an element
\* comes right after the return of processAndPushDownstream on its (i-1)-th
\* next element, and processAndPushDownstream is called on a next element
\* right after that element's process has returned.
DepthFirstInLinkOrder ==
    \A t \in Threads :
        LET L == ThreadLog(t) IN
            \A n \in 1..Len(L) :
                /\ (L[n].op = "process" /\ L[n].idx > 1) =>
                       /\ n > 1
                       /\ L[n - 1].op = "pushed"
                       /\ L[n - 1].parent = L[n].parent
                       /\ L[n - 1].idx = L[n].idx - 1
                /\ L[n].op = "push" =>
                       /\ n > 1
                       /\ L[n - 1].op \in {"process", "processed"}
                       /\ L[n - 1].parent = L[n].parent
                       /\ L[n - 1].idx = L[n].idx

\* The elements a frame of the first element reaches on the generator's
\* thread: the next elements of the elements in S that are no
\* AsynchronousQueue, and theirs.
RECURSIVE SyncReachable(_)
SyncReachable(S) ==
    LET T == S \cup {c \in Elements :
                        \E e \in S :
                            /\ kind[e] # "AsynchronousQueue"
                            /\ \E i \in 1..Len(m_nextElements[e]) :
                                   m_nextElements[e][i] = c}
    IN IF T = S THEN S ELSE SyncReachable(T)

\* No element was linked twice (links go from lower to higher elements, so
\* the graph is a forest).
TreeShaped ==
    \A n \in 1..Len(linkLog) :
        \A m \in 1..Len(linkLog) :
            linkLog[m].element = linkLog[n].element => m = n

\* The generator's call of processAndPushDownstream has returned.
PropagationComplete == phase = "run" /\ stacks[0] = <<>>

ProcessCalls(e) ==
    Cardinality({n \in 1..Len(callLog) :
                    callLog[n].op = "process" /\ callLog[n].elem = e})

\* C11 as claimed: propagation is depth-first in link order, and in a
\* tree-shaped graph every element the propagation reaches has process called
\* exactly once for the frame.
C11_DepthFirstExactlyOnce ==
    /\ DepthFirstInLinkOrder
    /\ (PropagationComplete /\ TreeShaped) =>
           \A e \in SyncReachable({1}) \ {1} : ProcessCalls(e) = 1

\* C11 amended: propagation is depth-first in link order, and in a
\* tree-shaped graph where no VideoSourceElement is reached downstream of the
\* first element every element the propagation reaches has process called
\* exactly once for the frame.
C11_DepthFirstOnceWithoutInnerSource ==
    /\ DepthFirstInLinkOrder
    /\ (/\ PropagationComplete
        /\ TreeShaped
        /\ \A e \in SyncReachable({1}) \ {1} : kind[e] # "VideoSourceElement") =>
           \A e \in SyncReachable({1}) \ {1} : ProcessCalls(e) = 1

\* A frame went through the first element linked to [2, 4] with 2 linked to
\* [3]: 3 was processed, and 2's propagation returned, before 4 was processed.
C11_Witness ==
    /\ PropagationComplete
    /\ kind = <<"VideoSourceElement", "DetectorElement", "DisplayElement",
                "DisplayElement">>
    /\ m_nextElements = << <<2, 4>>, <<3>>, <<>>, <<>> >>
    /\ Len(callLog) = 9
    /\ callLog[2].elem = 2 /\ callLog[2].op = "push"
    /\ callLog[3].elem = 3 /\ callLog[3].op = "process"
    /\ callLog[6].elem = 2 /\ callLog[6].op = "pushed"
    /\ callLog[7].elem = 4 /\ callLog[7].op = "process"

\* C14: the next elements of an AsynchronousQueue are called on the queue's
\* own thread only, and no other thread is ever inside a
\* processAndPushDownstream of the queue.
C14_QueueForwardsOnItsThreadOnly ==
    /\ \A n \in 1..Len(callLog) :
           kind[callLog[n].parent] = "AsynchronousQueue" =>
               callLog[n].thread = callLog[n].parent
    /\ \A t \in Threads :
           \A n \in 1..Len(stacks[t]) :
               kind[stacks[t][n].elem] = "AsynchronousQueue" =>
                   t = stacks[t][n].elem

\* main's elements and links: the generator's thread has processed the queue
\* and the display, the queue's thread has processed the detector.
C14_Witness ==
    /\ kind = Elements_main
    /\ m_nextElements = << <<2, 4>>, <<3>>, <<>>, <<>> >>
    /\ PropagationComplete
    /\ stacks[2] = <<>>
    /\ \E n \in 1..Len(callLog) :
           /\ callLog[n].op = "pushed"
           /\ callLog[n].parent = 2
           /\ callLog[n].elem = 3
           /\ callLog[n].thread = 2
    /\ \E n \in 1..Len(callLog) :
           /\ callLog[n].op = "pushed"
           /\ callLog[n].elem = 2
           /\ callLog[n].thread = 0

\* The elements the calls of link in the log appended to e, in call order.
RECURSIVE LinkedTo(_, _)
LinkedTo(log, e) ==
    IF log = <<>>
    THEN <<>>
    ELSE (IF Head(log).this = e THEN <<Head(log).element>> ELSE <<>>)
             \o LinkedTo(Tail(log), e)

\* C15: an element's m_nextElements are the elements link was called with on
\* it, in call order; link returns its argument, so a chained call is made on
\* the argument of the call before it.
C15_LinkAppendsAndReturnsNext ==
    /\ \A e \in Elements : m_nextElements[e] = LinkedTo(linkLog, e)
    /\ linkLog # <<>> => linkResult = linkLog[Len(linkLog)].element
    /\ \A n \in 1..Len(linkLog) :
           linkLog[n].chained =>
               /\ n > 1
               /\ linkLog[n].this = linkLog[n - 1].element

\* main's links: source->link(queue)->link(detector); source->link(display).
C15_Witness ==
    /\ kind = Elements_main
    /\ linkLog = <<[this |-> 1, element |-> 2, chained |-> FALSE],
                   [this |-> 2, element |-> 3, chained |-> TRUE],
                   [this |-> 1, element |-> 4, chained |-> FALSE]>>
    /\ m_nextElements = << <<2, 4>>, <<3>>, <<>>, <<>> >>

\* C22: at most one of start() and stop() calls m_internalThread.join() on
\* the generator thread.
C22_AtMostOneJoin == Cardinality(joiners) <= 1

\* C21: in main's pipeline the display never reads a frame's m_pixels while
\* the detector, on the queue's thread, is writing the m_pixels of the same
\* frame.
C21_DisplayNeverReadsWhileMarking ==
    ~(/\ display_pc = "reading"
      /\ detector_pc = "marking"
      /\ newVideoFrame = displayed + 1)

====
